---------------------------- MODULE Spec2Model ----------------------------
(***************************************************************************)
(* A model of the retrieval engine of server/api_server.py: the paragraph  *)
(* chunker, the tokeniser, the BM25 index (build, score, search) and the   *)
(* lifecycle of the process-wide `retriever` (startup, /debug/retrieve,    *)
(* /chat, /admin/reindex) run by concurrent request threads.               *)
(*                                                                         *)
(* A Python str is a sequence of one-character strings.                    *)
(***************************************************************************)
EXTENDS Integers, Sequences, FiniteSets, TLC

VARIABLES
    cText,      \* chunker harness: the text handed to _chunk_text
    cMax,       \* chunker harness: max_chars
    cOverlap,   \* chunker harness: overlap
    cOut,       \* chunker harness: the list _chunk_text returned
    cPhase,     \* chunker harness: "input" before the call, "done" after
    sChunks,    \* index harness: the list of Chunk handed to BM25Index
    sIndex,     \* index harness: the BM25Index built, None before
    sQuery,     \* index harness: the query of the last search
    sK,         \* index harness: the k of the last search
    sHits,      \* index harness: what the last search returned
    sPhase,     \* index harness: "input", "built", "searched", "raised",
                \* "repeated", "restarted", "again"
    sAgain,     \* index harness: what the same search returned in a second process
    hashSeed,   \* the hash seed of the process: it fixes the iteration order of a set
    tText,      \* tokeniser harness: the str handed to _tokenise_norm
    tOut,       \* tokeniser harness: the list _tokenise_norm returned
    tPhase,     \* tokeniser harness: "input" before the call, "done" after
    fsAt,       \* the corpus directories on disk: the position in Corpora
    fsChanges,  \* how often the disk has changed under the service
    retriever,  \* the module global `retriever`: NoRef (None), or a reference into heap
    heap,       \* the BM25Index objects constructed so far, by reference
    th,         \* the startup handler (0) and the request threads (1..)
    runs,       \* history: for each heap object, the run that constructed it
    published   \* history: the assignments to `retriever`, in order

chunkVars == <<cText, cMax, cOverlap, cOut, cPhase>>

searchVars == <<sChunks, sIndex, sQuery, sK, sHits, sPhase, sAgain, hashSeed>>

tokVars == <<tText, tOut, tPhase>>

svcVars == <<fsAt, fsChanges, retriever, heap, th, runs, published>>

vars == <<chunkVars, searchVars, tokVars, svcVars>>

\* Python's None where a str or an object is expected
None == "None"

\* Python's None where a reference to an object on the heap is expected
NoRef == 0

-----------------------------------------------------------------------------
(* Bounds of the model                                                     *)

\* the most paragraphs-with-separators a chunker input is made of
MaxParas == 3

\* the most chunks an index of the index harness is built from
MaxChunks == 3

\* the most requests the service receives (each runs in a thread of its own)
MaxRequests == 2

\* the most changes of the corpus on disk while the service runs
MaxFsChanges == 1

\* the longest str of the tokeniser harness that is made of TokChars
MaxTokLen == 4

-----------------------------------------------------------------------------
(* Python str and list primitives                                          *)

\* the default max_chars of _chunk_text
DefaultMaxChars == 1200

\* the default overlap of _chunk_text
DefaultOverlap == 200

Min(a, b) == IF a <= b THEN a ELSE b

Max(a, b) == IF a >= b THEN a ELSE b

\* the elements of a sequence
Range(f) == {f[i] : i \in DOMAIN f}

\* c * n for a one-character str c
Rep(c, n) == [i \in 1..n |-> c]

\* the characters \s matches and str.strip() removes
IsSpace(c) == c \in {" ", "\n", "\t"}

\* s[lo:] of a 0-based slice start lo >= 0, as SubSeq
From(s, lo) == SubSeq(s, lo + 1, Len(s))

\* s[-n:] for n > 0: the last n characters, all of s when it is shorter
LastChars(s, n) == SubSeq(s, Max(1, Len(s) - n + 1), Len(s))

\* str.strip(): from the first to the last character that is not whitespace
Strip(s) ==
    IF \A i \in 1..Len(s) : IsSpace(s[i]) THEN <<>>
    ELSE LET a == CHOOSE i \in 1..Len(s) :
                      ~IsSpace(s[i]) /\ \A j \in 1..(i - 1) : IsSpace(s[j])
             b == CHOOSE i \in 1..Len(s) :
                      ~IsSpace(s[i]) /\ \A j \in (i + 1)..Len(s) : IsSpace(s[j])
         IN  SubSeq(s, a, b)

\* the positions where the pattern \n\s*\n matches: a newline followed by a
\* run of whitespace that holds another newline
SepStarts(s) ==
    {i \in 1..Len(s) :
        /\ s[i] = "\n"
        /\ \E j \in (i + 1)..Len(s) :
              /\ s[j] = "\n"
              /\ \A k \in (i + 1)..(j - 1) : IsSpace(s[k])}

\* the end of the match of \n\s*\n that starts at i: \s* is greedy, so the
\* match ends at the last newline of the whitespace run
SepEnd(s, i) ==
    CHOOSE j \in (i + 1)..Len(s) :
        /\ s[j] = "\n"
        /\ \A k \in (i + 1)..(j - 1) : IsSpace(s[k])
        /\ \A m \in (j + 1)..Len(s) :
              ~(s[m] = "\n" /\ \A k \in (i + 1)..(m - 1) : IsSpace(s[k]))

\* re.split(r"\n\s*\n", s): the pieces between the leftmost successive matches
RECURSIVE ReSplit(_)
ReSplit(s) ==
    LET starts == SepStarts(s)
    IN  IF starts = {} THEN <<s>>
        ELSE LET i == CHOOSE a \in starts : \A b \in starts : a <= b
                 j == SepEnd(s, i)
             IN  <<SubSeq(s, 1, i - 1)>> \o ReSplit(From(s, j))

\* "\n\n".join(buf)
RECURSIVE Join(_)
Join(buf) ==
    IF Len(buf) = 0 THEN <<>>
    ELSE IF Len(buf) = 1 THEN buf[1]
    ELSE buf[1] \o <<"\n", "\n">> \o Join(Tail(buf))

\* [f(x) for x in xs if keep(x)] for the stripped paragraphs
RECURSIVE StripNonEmpty(_)
StripNonEmpty(ps) ==
    IF ps = <<>> THEN <<>>
    ELSE LET p == Strip(Head(ps))
         IN  (IF p # <<>> THEN <<p>> ELSE <<>>) \o StripNonEmpty(Tail(ps))

-----------------------------------------------------------------------------
(* _chunk_text                                                             *)

\* paras = [p.strip() for p in re.split(r"\n\s*\n", text) if p.strip()]
Paras(text) == StripNonEmpty(ReSplit(text))

\* a seed that slices the head of the flushed chunk, [:overlap], not its tail
SeedBufferHead(chunks, p, overlap) ==
    IF chunks # <<>> /\ overlap > 0
    THEN LET tail == SubSeq(chunks[Len(chunks)], 1, Min(overlap, Len(chunks[Len(chunks)])))
         IN  [buf |-> <<tail, p>>, buf_len |-> Len(tail) + 2 + Len(p)]
    ELSE [buf |-> <<p>>, buf_len |-> Len(p)]

\* the seed of the buffer after a paragraph p did not fit: the tail of the
\* chunk just flushed and p, or p alone
SeedBuffer(chunks, p, overlap) ==
    IF chunks # <<>> /\ overlap > 0
    THEN LET tail == LastChars(chunks[Len(chunks)], overlap)
         IN  [buf |-> <<tail, p>>, buf_len |-> Len(tail) + 2 + Len(p)]
    ELSE [buf |-> <<p>>, buf_len |-> Len(p)]

\* an iteration that cuts a paragraph down to max_chars before it places it
ChunkStepTruncate(st, p, max_chars, overlap) ==
    LET cut == SubSeq(p, 1, Min(max_chars, Len(p)))
    IN  IF st.buf_len + Len(cut) + 2 <= max_chars
        THEN [chunks |-> st.chunks,
              buf |-> Append(st.buf, cut),
              buf_len |-> st.buf_len + Len(cut) + 2]
        ELSE LET flushed == IF st.buf # <<>>
                            THEN Append(st.chunks, Join(st.buf))
                            ELSE st.chunks
                 seed == SeedBuffer(flushed, cut, overlap)
             IN  [chunks |-> flushed, buf |-> seed.buf, buf_len |-> seed.buf_len]

\* one iteration of `for p in paras` on the loop state st = (chunks, buf, buf_len)
ChunkStep(st, p, max_chars, overlap) ==
    IF st.buf_len + Len(p) + 2 <= max_chars
    THEN [chunks |-> st.chunks,
          buf |-> Append(st.buf, p),
          buf_len |-> st.buf_len + Len(p) + 2]
    ELSE LET flushed == IF st.buf # <<>>
                        THEN Append(st.chunks, Join(st.buf))
                        ELSE st.chunks
             seed == SeedBuffer(flushed, p, overlap)
         IN  [chunks |-> flushed, buf |-> seed.buf, buf_len |-> seed.buf_len]

\* the loop over paras from the loop state st
RECURSIVE ChunkLoop(_, _, _, _)
ChunkLoop(st, paras, max_chars, overlap) ==
    IF paras = <<>> THEN st
    ELSE ChunkLoop(ChunkStep(st, Head(paras), max_chars, overlap),
                   Tail(paras), max_chars, overlap)

\* _chunk_text(text, max_chars, overlap): the list of chunk texts
_chunk_text(text, max_chars, overlap) ==
    LET st == ChunkLoop([chunks |-> <<>>, buf |-> <<>>, buf_len |-> 0],
                        Paras(text), max_chars, overlap)
    IN  IF st.buf # <<>> THEN Append(st.chunks, Join(st.buf)) ELSE st.chunks

-----------------------------------------------------------------------------
(* _tokenise_norm                                                          *)

UpperLetters == <<"A", "B", "C", "D", "E", "F", "G", "H", "I", "J", "K", "L", "M",
                  "N", "O", "P", "Q", "R", "S", "T", "U", "V", "W", "X", "Y", "Z">>

LowerLetters == <<"a", "b", "c", "d", "e", "f", "g", "h", "i", "j", "k", "l", "m",
                  "n", "o", "p", "q", "r", "s", "t", "u", "v", "w", "x", "y", "z">>

Digits == {"0", "1", "2", "3", "4", "5", "6", "7", "8", "9"}

\* str.lower() on one character
LowerChar(c) ==
    IF \E i \in 1..Len(UpperLetters) : UpperLetters[i] = c
    THEN LowerLetters[CHOOSE i \in 1..Len(UpperLetters) : UpperLetters[i] = c]
    ELSE c

\* s.lower()
Lower(s) == [i \in 1..Len(s) |-> LowerChar(s[i])]

\* the class [a-z0-9]
IsAlnum(c) == c \in Range(LowerLetters) \cup Digits

\* the class [a-z0-9\-]
IsTokChar(c) == IsAlnum(c) \/ c = "-"

\* the end of the greedy run [a-z0-9\-]+ that starts at position i
RunEnd(s, i) ==
    CHOOSE e \in i..Len(s) :
        /\ \A j \in i..e : IsTokChar(s[j])
        /\ (e = Len(s) \/ ~IsTokChar(s[e + 1]))

\* the pattern [a-z0-9][a-z0-9\-]*, which a single character matches
RECURSIVE FindAllSingle(_, _)
FindAllSingle(s, i) ==
    IF i > Len(s) THEN <<>>
    ELSE IF IsAlnum(s[i])
    THEN LET e == IF i + 1 <= Len(s) /\ IsTokChar(s[i + 1]) THEN RunEnd(s, i + 1) ELSE i
         IN  <<SubSeq(s, i, e)>> \o FindAllSingle(s, e + 1)
    ELSE FindAllSingle(s, i + 1)

\* re.findall(r"[a-z0-9][a-z0-9\-]+", s) scanning from position i: a match
\* needs a first character of [a-z0-9] and at least one more of [a-z0-9\-];
\* the scan resumes after a match, and one character on where none starts
RECURSIVE FindAll(_, _)
FindAll(s, i) ==
    IF i > Len(s) THEN <<>>
    ELSE IF IsAlnum(s[i]) /\ i + 1 <= Len(s) /\ IsTokChar(s[i + 1])
    THEN LET e == RunEnd(s, i + 1)
         IN  <<SubSeq(s, i, e)>> \o FindAll(s, e + 1)
    ELSE FindAll(s, i + 1)

\* _tokenise_norm(s)
_tokenise_norm(s) == FindAll(Lower(s), 1)

-----------------------------------------------------------------------------
(* Numbers.  A Python float that the code computes by +, -, *, / from      *)
(* integers is the exact rational [n, d] with d > 0; math.log and the      *)
(* score are fixed-point integers in units of 10^-6.                       *)

RECURSIVE GCD(_, _)
GCD(a, b) == IF b = 0 THEN a ELSE GCD(b, a % b)

Abs(a) == IF a < 0 THEN -a ELSE a

\* the rational n/d in lowest terms with a positive denominator
Q(n, d) ==
    LET g == GCD(Abs(n), Abs(d))
        sg == IF d < 0 THEN -1 ELSE 1
    IN  [n |-> sg * (n \div g), d |-> sg * (d \div g)]

QInt(a) == [n |-> a, d |-> 1]

QAdd(x, y) == Q(x.n * y.d + y.n * x.d, x.d * y.d)

QSub(x, y) == Q(x.n * y.d - y.n * x.d, x.d * y.d)

QMul(x, y) == Q(x.n * y.n, x.d * y.d)

QDiv(x, y) == Q(x.n * y.d, x.d * y.n)

\* the floor 1e-9 of the denominator in score is 1 / EpsInv
EpsInv == 1000000000

\* floor(a * n / d) for a, n >= 0 and d > 0, computed without forming a * n
MulDiv(a, n, d) == (a \div d) * n + ((a % d) * n) \div d

\* 10^6 * ln(n), rounded, for n = 1..24
LnTable == <<0, 693147, 1098612, 1386294, 1609438, 1791759, 1945910, 2079442,
             2197225, 2302585, 2397895, 2484907, 2564949, 2639057, 2708050,
             2772589, 2833213, 2890372, 2944439, 2995732, 3044522, 3091042,
             3135494, 3178054>>

\* math.log(x) of a positive rational, in units of 10^-6
Log(x) == LnTable[x.n] - LnTable[x.d]

-----------------------------------------------------------------------------
(* Chunk and BM25Index                                                     *)

\* Chunk(source, text, tokens)
Chunk(source, text, tokens) ==
    [source |-> source, text |-> text, tokens |-> tokens]

\* the default k1 of BM25Index
DefaultK1 == Q(3, 2)

\* the default b of BM25Index
DefaultB == Q(3, 4)

\* Counter(tokens)[t]: the occurrences of t
Count(tokens, t) == Cardinality({i \in 1..Len(tokens) : tokens[i] = t})

\* sum(len(ch.tokens) for ch in chunks)
RECURSIVE SumLen(_)
SumLen(chunks) ==
    IF chunks = <<>> THEN 0
    ELSE Len(Head(chunks).tokens) + SumLen(Tail(chunks))

\* the elements of a set in one fixed order
RECURSIVE SetSeq(_)
SetSeq(S) ==
    IF S = {} THEN <<>>
    ELSE LET x == CHOOSE y \in S : TRUE
         IN  <<x>> \o SetSeq(S \ {x})

\* a sequence back to front
Reverse(s) == [i \in 1..Len(s) |-> s[Len(s) + 1 - i]]

\* the hash seeds a process may run with
HashSeeds == {0, 1}

\* `for x in S` over a set: the order is fixed by the hash seed of the process
SetIter(S) == IF hashSeed = 0 THEN SetSeq(S) ELSE Reverse(SetSeq(S))

\* an iteration over ch.tokens itself, which meets a repeated term again
ChunkTermsRepeated(ch) == ch.tokens

\* `for t in set(ch.tokens)`: each term of the chunk once
ChunkTerms(ch) == SetIter(Range(ch.tokens))

\* c[t] += 1 on a Counter: a term not yet held starts from 0
CounterAdd(c, t) ==
    [x \in DOMAIN c \cup {t} |->
        (IF x \in DOMAIN c THEN c[x] ELSE 0) + (IF x = t THEN 1 ELSE 0)]

\* the inner loop of __init__: self.df[t] += 1 for each term of ts
RECURSIVE CountTerms(_, _)
CountTerms(df, ts) ==
    IF ts = <<>> THEN df
    ELSE CountTerms(CounterAdd(df, Head(ts)), Tail(ts))

\* the outer loop of __init__ over the chunks, from the Counter df
RECURSIVE DocFreqLoop(_, _)
DocFreqLoop(df, chunks) ==
    IF chunks = <<>> THEN df
    ELSE DocFreqLoop(CountTerms(df, ChunkTerms(Head(chunks))), Tail(chunks))

\* the Counter df after the loops of __init__
DocFreq(chunks) == DocFreqLoop(<<>>, chunks)

\* BM25Index.__init__(chunks, k1, b)
BM25Index(chunks, k1, b) ==
    LET N == Len(chunks)
    IN  [k1 |-> k1, b |-> b, chunks |-> chunks, N |-> N,
         df |-> DocFreq(chunks),
         avgdl |-> IF N # 0 THEN Q(SumLen(chunks), Max(1, N)) ELSE QInt(0)]

\* the idf of Robertson and Sparck Jones, log((N - df + 0.5) / (df + 0.5)),
\* without the 1 +
IdfClassic(self, t) ==
    Log(QDiv(QAdd(QInt(self.N - self.df[t]), Q(1, 2)),
             QAdd(QInt(self.df[t]), Q(1, 2))))

\* an idf with the ratio upside down, log(1 + (df + 0.5) / (N - df + 0.5))
IdfInverted(self, t) ==
    Log(QAdd(QInt(1),
             QDiv(QAdd(QInt(self.df[t]), Q(1, 2)),
                  QAdd(QInt(self.N - self.df[t]), Q(1, 2)))))

\* idf = math.log(1 + (self.N - self.df[t] + 0.5) / (self.df[t] + 0.5))
Idf(self, t) ==
    Log(QAdd(QInt(1),
             QDiv(QAdd(QInt(self.N - self.df[t]), Q(1, 2)),
                  QAdd(QInt(self.df[t]), Q(1, 2)))))

\* dl = len(ch.tokens) or 1
DocLen(ch) == IF Len(ch.tokens) # 0 THEN Len(ch.tokens) ELSE 1

\* (dl / self.avgdl if self.avgdl else 1.0)
Ratio(self, dl) ==
    IF self.avgdl.n # 0 THEN QDiv(QInt(dl), self.avgdl) ELSE QInt(1)

\* a denominator that takes the square of f
DenomSquare(self, t, ch) ==
    LET f == Count(ch.tokens, t)
    IN  QAdd(QInt(f * f),
             QMul(self.k1,
                  QAdd(QSub(QInt(1), self.b), QMul(self.b, Ratio(self, DocLen(ch))))))

\* denom = f + self.k1 * (1 - self.b + self.b * (dl / avgdl or 1.0))
Denom(self, t, ch) ==
    LET f == Count(ch.tokens, t)
    IN  QAdd(QInt(f),
             QMul(self.k1,
                  QAdd(QSub(QInt(1), self.b), QMul(self.b, Ratio(self, DocLen(ch))))))

\* a denominator used as it is, without the floor
FloorEpsNone(x) == x

\* max(1e-9, x): x >= 1/EpsInv exactly when EpsInv >= ceil(x.d / x.n)
FloorEps(x) ==
    IF x.n > 0 /\ (x.d + x.n - 1) \div x.n <= EpsInv THEN x ELSE Q(1, EpsInv)

\* x / y raises ZeroDivisionError
DivRaises(y) == y.n = 0

\* the body of the loop of score raises for term t: a division by zero at
\* line 132, 134 or 135, or math.log of a number that is not positive
TermRaises(self, t, ch) ==
    \/ DivRaises(QAdd(QInt(self.df[t]), Q(1, 2)))
    \/ QAdd(QInt(1), QDiv(QAdd(QInt(self.N - self.df[t]), Q(1, 2)),
                          QAdd(QInt(self.df[t]), Q(1, 2)))).n <= 0
    \/ (self.avgdl.n # 0 /\ DivRaises(self.avgdl))
    \/ DivRaises(FloorEps(Denom(self, t, ch)))

\* score(q_tokens, ch) raises
ScoreRaises(self, q_tokens, ch) ==
    \E i \in 1..Len(q_tokens) :
        q_tokens[i] \in DOMAIN self.df /\ TermRaises(self, q_tokens[i], ch)

\* search(query, k) raises: the tokeniser, the sort and the slice do not
SearchRaises(self, query) ==
    \E i \in 1..Len(self.chunks) :
        ScoreRaises(self, _tokenise_norm(query), self.chunks[i])

\* the term of t in BM25Index.score: idf * (f * (k1 + 1)) / max(1e-9, denom)
TermScore(self, t, ch) ==
    LET idf   == Idf(self, t)
        f     == Count(ch.tokens, t)
        frac  == QDiv(QMul(QInt(f), QAdd(self.k1, QInt(1))),
                      FloorEps(Denom(self, t, ch)))
    IN  MulDiv(idf, frac.n, frac.d)

\* a score that leaves out the terms held by every chunk
RECURSIVE score_skip_common(_, _, _)
score_skip_common(self, q_tokens, ch) ==
    IF q_tokens = <<>> THEN 0
    ELSE (IF Head(q_tokens) \in DOMAIN self.df /\ self.df[Head(q_tokens)] < self.N
          THEN TermScore(self, Head(q_tokens), ch) ELSE 0)
         + score_skip_common(self, Tail(q_tokens), ch)

\* BM25Index.score(q_tokens, ch): the sum over the query terms, in order, of
\* the terms the index knows
RECURSIVE score(_, _, _)
score(self, q_tokens, ch) ==
    IF q_tokens = <<>> THEN 0
    ELSE (IF Head(q_tokens) \in DOMAIN self.df
          THEN TermScore(self, Head(q_tokens), ch) ELSE 0)
         + score(self, Tail(q_tokens), ch)

\* a lookup that stores 0 for a term it does not hold, as a defaultdict does
DfAfterTermInsert(df, t) ==
    [x \in DOMAIN df \cup {t} |-> IF x \in DOMAIN df THEN df[x] ELSE 0]

\* self.df after one query term of score: `t not in self.df` and self.df[t]
\* only read the Counter
DfAfterTerm(df, t) == df

\* self.df after score has gone through q_tokens
RECURSIVE DfAfterScore(_, _)
DfAfterScore(df, q_tokens) ==
    IF q_tokens = <<>> THEN df
    ELSE DfAfterScore(DfAfterTerm(df, Head(q_tokens)), Tail(q_tokens))

\* the index object after search(query, k): score runs once per chunk; the
\* sort and the slice work on the new list `scored`
IndexAfterSearch(self, query) ==
    IF self.chunks = <<>> THEN self
    ELSE [self EXCEPT !.df = DfAfterScore(@, _tokenise_norm(query))]

\* a sort that puts x before the elements of equal score
InsertDescBeforeTies(sorted, x) ==
    LET n == Cardinality({i \in 1..Len(sorted) : sorted[i].score > x.score})
    IN  SubSeq(sorted, 1, n) \o <<x>> \o SubSeq(sorted, n + 1, Len(sorted))

\* the place of x in a list sorted descending by score that keeps x after
\* every element comparing >= to it
InsertDesc(sorted, x) ==
    LET n == Cardinality({i \in 1..Len(sorted) : sorted[i].score >= x.score})
    IN  SubSeq(sorted, 1, n) \o <<x>> \o SubSeq(sorted, n + 1, Len(sorted))

\* list.sort(key=lambda x: x[0], reverse=True): descending and stable
RECURSIVE SortDesc(_)
SortDesc(scored) ==
    IF scored = <<>> THEN <<>>
    ELSE InsertDesc(SortDesc(SubSeq(scored, 1, Len(scored) - 1)),
                    scored[Len(scored)])

\* scored[:n] for n >= 0
Take(scored, n) == SubSeq(scored, 1, Min(n, Len(scored)))

\* a search that slices scored[:k] without the floor of 1
search_no_floor(self, query, k) ==
    LET q == _tokenise_norm(query)
        scored == [i \in 1..Len(self.chunks) |->
                      [score |-> score(self, q, self.chunks[i]), ch |-> i]]
    IN  Take(SortDesc(scored), Max(0, k))

\* a search that goes through the chunks in the iteration order of a set
search_set_order(self, query, k) ==
    LET q == _tokenise_norm(query)
        order == SetIter(1..Len(self.chunks))
        scored == [i \in 1..Len(self.chunks) |->
                      [score |-> score(self, q, self.chunks[order[i]]),
                       ch |-> order[i]]]
    IN  Take(SortDesc(scored), Max(1, k))

\* BM25Index.search(query, k): (score, ch) pairs, ch the position of the Chunk
\* object in self.chunks
search(self, query, k) ==
    LET q == _tokenise_norm(query)
        scored == [i \in 1..Len(self.chunks) |->
                      [score |-> score(self, q, self.chunks[i]), ch |-> i]]
    IN  Take(SortDesc(scored), Max(1, k))

\* _retrieve(query, k) of the closure over index
_retrieve(index, query, k) ==
    LET hits == search(index, query, k)
    IN  [i \in 1..Len(hits) |->
            [source |-> index.chunks[hits[i].ch].source,
             text |-> index.chunks[hits[i].ch].text,
             score |-> hits[i].score]]

-----------------------------------------------------------------------------
(* The harnesses at rest, while another specification runs                *)

\* the chunker harness at rest
ChunkIdle ==
    /\ cText = <<>>
    /\ cMax = DefaultMaxChars
    /\ cOverlap = DefaultOverlap
    /\ cOut = <<>>
    /\ cPhase = "input"

\* the index harness at rest
SearchIdle ==
    /\ sChunks = <<>>
    /\ sIndex = None
    /\ sQuery = <<>>
    /\ sK = 5
    /\ sHits = <<>>
    /\ sPhase = "input"
    /\ sAgain = <<>>
    /\ hashSeed = 0

\* the tokeniser harness at rest
TokIdle ==
    /\ tText = <<>>
    /\ tOut = <<>>
    /\ tPhase = "input"

-----------------------------------------------------------------------------
(* The service: the global `retriever`, the corpus on disk, the startup    *)
(* handler and the request handlers, each run by a thread of its own       *)
(* (FastAPI runs `def` endpoints in a thread pool).  A step of a thread is *)
(* one access to the disk, to the heap or to the global.                   *)

\* a file of a directory: unreadable files make read_text raise
File(name, readable, text) == [name |-> name, readable |-> readable, text |-> text]

\* a directory: "ok" with its files sorted by name, "missing", or "ioerror"
\* (it exists and listing it raises OSError)
Dir(state, files) == [state |-> state, files |-> files]

MissingDir == Dir("missing", <<>>)

\* the states of the disk the service is run against, in the order in which
\* the disk goes through them
Corpora ==
    << \* two documents in corp_docs/txt
       [corp |-> Dir("ok", <<File("a.txt", TRUE, <<"a", "a", " ", "b", "b">>),
                             File("b.txt", TRUE, <<"b", "b", "\n">>)>>),
        legacy |-> MissingDir],
       \* an unreadable file, a whitespace-only file, a file that is not *.txt
       [corp |-> Dir("ok", <<File("a.txt", TRUE, <<"a", "a">>),
                             File("b.txt", FALSE, <<>>),
                             File("c.txt", TRUE, <<" ", "\n">>),
                             File("n.md", TRUE, <<"z", "z">>)>>),
        legacy |-> MissingDir],
       \* no corpus directory at all
       [corp |-> MissingDir, legacy |-> MissingDir],
       \* only the legacy directory
       [corp |-> MissingDir,
        legacy |-> Dir("ok", <<File("a.txt", TRUE, <<"z", "z", " ", "a", "a">>)>>)],
       \* a corpus directory that cannot be listed
       [corp |-> Dir("ioerror", <<>>), legacy |-> MissingDir] >>

\* the state of the disk after state i
NextCorpus(i) == (i % Len(Corpora)) + 1

\* the threads: 0 runs the startup handler, 1..MaxRequests one request each
Threads == 0..MaxRequests

\* the JSON a handler answers with, and what raise HTTPException becomes
Response(code, body) == [code |-> code, body |-> body]

\* no answer yet
NoResponse == Response(0, [detail |-> ""])

\* no request body
NoPayload == [message |-> <<>>, k |-> "", temperature |-> ""]

\* a thread that has not been given anything to do
NewThread ==
    [op |-> "none", pc |-> "new", payload |-> NoPayload, query |-> <<>>, k |-> 0,
     storage |-> None, ref |-> NoRef, hits |-> <<>>, resp |-> NoResponse]

\* p.name matches the glob *.txt
IsTxt(name) == name \in {"a.txt", "b.txt", "c.txt"}

\* the parameters of /debug/retrieve: (q, k)
RetrieveParams == {<<<<"a", "a">>, 0>>, <<<<"b", "b", " ", "z", "z">>, 2>>}

\* the bodies of POST /chat: message, k and temperature as sent ("" for a
\* key the body does not hold)
ChatPayloads ==
    {[message |-> <<"a", "a">>, k |-> "2", temperature |-> ""],
     [message |-> <<" ">>, k |-> "2", temperature |-> "0.35"],
     [message |-> <<"b", "b">>, k |-> "six", temperature |-> "0.35"],
     [message |-> <<"b", "b">>, k |-> "", temperature |-> "hot"]}

\* the k of /chat when the body holds none
DefaultChatK == 6

\* int(x) of the values of k above
IntOf == [x \in {"0", "2"} |-> IF x = "0" THEN 0 ELSE 2]

\* int(payload.get("k", 6)) does not raise
KParses(pl) == pl.k = "" \/ pl.k \in DOMAIN IntOf

\* float(payload.get("temperature", 0.35)) does not raise
TemperatureParses(pl) == pl.temperature \in {"", "0.35"}

\* the length of the preview of /debug/retrieve
DebugPreviewLen == 600

\* the length of the preview of a citation of /chat
ChatPreviewLen == 300

\* round(x, 4) of a score in units of 10^-6, in the same units
Round4(x) == ((x + 50) \div 100) * 100

\* the "results" of /debug/retrieve
DebugResults(docs) ==
    [i \in 1..Len(docs) |->
        [score |-> Round4(docs[i].score), source |-> docs[i].source,
         preview |-> Take(docs[i].text, DebugPreviewLen)]]

\* internal_cites of /chat
ChatCitations(docs) ==
    [i \in 1..Len(docs) |->
        [source |-> docs[i].source, score |-> Round4(docs[i].score),
         preview |-> Take(docs[i].text, ChatPreviewLen)]]

SvcIdle ==
    /\ fsAt = 1
    /\ fsChanges = 0
    /\ retriever = NoRef
    /\ heap = <<>>
    /\ th = [t \in Threads |-> NewThread]
    /\ runs = <<>>
    /\ published = <<>>

\* the process right after import: retriever = None (line 262), nothing built
SvcInit ==
    /\ ChunkIdle
    /\ SearchIdle
    /\ TokIdle
    /\ fsAt \in 1..Len(Corpora)
    /\ fsChanges = 0
    /\ retriever = NoRef
    /\ heap = <<>>
    /\ th = [t \in Threads |-> NewThread]
    /\ runs = <<>>
    /\ published = <<>>

\* the corpus directories on disk now: [corp, legacy]
fs == Corpora[fsAt]

\* thread t is free and every thread before it has been used; no request
\* is served once the startup handler has failed
CanBegin(t) ==
    /\ t >= 1
    /\ th[t].pc = "new"
    /\ t > 1 => th[t - 1].pc # "new"
    /\ th[0].pc # "failed"

\* the files of the corpus change on disk
FsChange ==
    /\ fsChanges < MaxFsChanges
    /\ fsAt' = NextCorpus(fsAt)
    /\ fsChanges' = fsChanges + 1
    /\ UNCHANGED <<retriever, heap, th, runs, published, chunkVars, searchVars, tokVars>>

\* _effective_paths(): corp_docs/txt if it exists, else the legacy txt
EffectivePaths == IF fs.corp.state # "missing" THEN "corp" ELSE "legacy"

\* the loop of _read_txt_files over the sorted *.txt files: a file that
\* cannot be read is skipped, and so is a file that strips to nothing
RECURSIVE ReadEach(_)
ReadEach(files) ==
    IF files = <<>> THEN <<>>
    ELSE LET f == Head(files)
             text == Strip(f.text)
         IN  (IF IsTxt(f.name) /\ f.readable /\ text # <<>>
              THEN <<<<f.name, text>>>> ELSE <<>>)
             \o ReadEach(Tail(files))

\* _read_txt_files(txt_dir): no directory gives no documents
_read_txt_files(dir) == IF dir.state = "missing" THEN <<>> ELSE ReadEach(dir.files)

\* history: what _read_txt_files meets on disk now: no directory, a directory
\* that cannot be listed, a *.txt file that cannot be read, or none of these
StorageState ==
    LET dir == fs[EffectivePaths]
    IN  CASE dir.state = "missing" -> "missing"
          [] dir.state = "ioerror" -> "ioerror"
          [] \E i \in 1..Len(dir.files) :
                IsTxt(dir.files[i].name) /\ ~dir.files[i].readable -> "unreadable_file"
          [] OTHER -> "readable"

\* a load that raises on a missing directory
LoadRaisesWhenMissing == fs[EffectivePaths].state \in {"ioerror", "missing"}

\* a pipeline that raises on a corpus without documents
LoadRaisesWhenEmpty ==
    \/ fs[EffectivePaths].state = "ioerror"
    \/ _read_txt_files(fs[EffectivePaths]) = <<>>

\* listing the directory raises, and the exception leaves build_bm25_retriever
LoadRaises == fs[EffectivePaths].state = "ioerror"

\* the chunks of build_bm25_retriever: every chunk of every document, tokenised
RECURSIVE ChunksOf(_)
ChunksOf(raw_docs) ==
    IF raw_docs = <<>> THEN <<>>
    ELSE LET src   == Head(raw_docs)[1]
             texts == _chunk_text(Head(raw_docs)[2], DefaultMaxChars, DefaultOverlap)
         IN  [i \in 1..Len(texts) |->
                 Chunk(src, texts[i], _tokenise_norm(texts[i]))]
             \o ChunksOf(Tail(raw_docs))

\* BM25Index.__init__ before its loop over the chunks: the object exists with
\* chunks and N, an empty df and no avgdl yet (written 0/0)
NewIndexObject(chunks, k1, b) ==
    [k1 |-> k1, b |-> b, chunks |-> chunks, N |-> Len(chunks),
     df |-> <<>>, avgdl |-> [n |-> 0, d |-> 0]]

\* an index that is made reachable through `retriever` as soon as it is
\* allocated, before its statistics are computed
BuildLoadPublishEarly(t, op) ==
    LET raw_docs == _read_txt_files(fs[EffectivePaths])
    IN  /\ ~LoadRaises
        /\ heap' = Append(heap, NewIndexObject(ChunksOf(raw_docs), DefaultK1, DefaultB))
        /\ runs' = Append(runs, [by |-> t, docs |-> raw_docs])
        /\ th' = [th EXCEPT ![t].op = op, ![t].storage = StorageState,
                            ![t].ref = Len(heap) + 1, ![t].pc = "stats"]
        /\ retriever' = Len(heap) + 1
        /\ published' = Append(published, [ref |-> Len(heap) + 1, by |-> t])
        /\ UNCHANGED <<fsAt, fsChanges, chunkVars, searchVars, tokVars>>

\* build_bm25_retriever up to the construction of the index: the corpus is
\* read and chunked, and BM25Index(chunks) is entered; thread t goes on as op
BuildLoad(t, op) ==
    LET raw_docs == _read_txt_files(fs[EffectivePaths])
    IN  /\ ~LoadRaises
        /\ heap' = Append(heap, NewIndexObject(ChunksOf(raw_docs), DefaultK1, DefaultB))
        /\ runs' = Append(runs, [by |-> t, docs |-> raw_docs])
        /\ th' = [th EXCEPT ![t].op = op, ![t].storage = StorageState,
                            ![t].ref = Len(heap) + 1, ![t].pc = "stats"]
        /\ UNCHANGED <<fsAt, fsChanges, retriever, published, chunkVars, searchVars, tokVars>>

\* the rest of BM25Index.__init__: df and avgdl of the object under construction
BuildStats(t) ==
    /\ th[t].pc = "stats"
    /\ heap' = [heap EXCEPT ![th[t].ref] = BM25Index(@.chunks, @.k1, @.b)]
    /\ th' = [th EXCEPT ![t].pc = "publish"]
    /\ UNCHANGED <<fsAt, fsChanges, retriever, runs, published, chunkVars, searchVars, tokVars>>

\* the assignment `retriever = build_bm25_retriever()` by thread t
Publish(t) ==
    /\ retriever' = th[t].ref
    /\ published' = Append(published, [ref |-> th[t].ref, by |-> t])

\* the startup event fires: _startup runs build_bm25_retriever
StartupLoad ==
    /\ th[0].pc = "new"
    /\ BuildLoad(0, "startup")

\* the exception of build_bm25_retriever leaves _startup: the application
\* does not start
StartupFail ==
    /\ th[0].pc = "new"
    /\ LoadRaises
    /\ th' = [th EXCEPT ![0].op = "startup", ![0].storage = StorageState,
                        ![0].pc = "failed"]
    /\ UNCHANGED <<fsAt, fsChanges, retriever, heap, runs, published, chunkVars, searchVars, tokVars>>

\* retriever = build_bm25_retriever() in _startup
StartupPublish ==
    /\ th[0].pc = "publish"
    /\ Publish(0)
    /\ th' = [th EXCEPT ![0].pc = "done"]
    /\ UNCHANGED <<fsAt, fsChanges, heap, runs, chunkVars, searchVars, tokVars>>

\* a reindex that sets `retriever = None` before it rebuilds
ReindexLoadClears(t) ==
    LET raw_docs == _read_txt_files(fs[EffectivePaths])
    IN  /\ CanBegin(t)
        /\ ~LoadRaises
        /\ heap' = Append(heap, NewIndexObject(ChunksOf(raw_docs), DefaultK1, DefaultB))
        /\ runs' = Append(runs, [by |-> t, docs |-> raw_docs])
        /\ th' = [th EXCEPT ![t].op = "reindex", ![t].storage = StorageState,
                            ![t].ref = Len(heap) + 1, ![t].pc = "stats"]
        /\ retriever' = NoRef
        /\ UNCHANGED <<fsAt, fsChanges, published, chunkVars, searchVars, tokVars>>

\* POST /admin/reindex arrives: reindex runs build_bm25_retriever
ReindexLoad(t) ==
    /\ CanBegin(t)
    /\ BuildLoad(t, "reindex")

\* an except clause that also drops the published index
ReindexExceptClears(t) ==
    /\ CanBegin(t)
    /\ LoadRaises
    /\ th' = [th EXCEPT ![t].op = "reindex", ![t].storage = StorageState,
                        ![t].pc = "done",
                        ![t].resp = Response(500, [status |-> "error"])]
    /\ retriever' = NoRef
    /\ UNCHANGED <<fsAt, fsChanges, heap, runs, published, chunkVars, searchVars, tokVars>>

\* except Exception in reindex: the failure is answered, not raised
ReindexExcept(t) ==
    /\ CanBegin(t)
    /\ LoadRaises
    /\ th' = [th EXCEPT ![t].op = "reindex", ![t].storage = StorageState,
                        ![t].pc = "done",
                        ![t].resp = Response(500, [status |-> "error"])]
    /\ UNCHANGED <<fsAt, fsChanges, retriever, heap, runs, published, chunkVars, searchVars, tokVars>>

\* retriever = build_bm25_retriever() in reindex, and its return
ReindexPublish(t) ==
    /\ t >= 1
    /\ th[t].pc = "publish"
    /\ Publish(t)
    /\ th' = [th EXCEPT ![t].pc = "done",
                        ![t].resp = Response(200, [status |-> "ok"])]
    /\ UNCHANGED <<fsAt, fsChanges, heap, runs, chunkVars, searchVars, tokVars>>

\* a handler without the readiness check: calling None raises TypeError,
\* which the framework answers with a 500
CheckReadyUnhandled(thread, query, k) ==
    [thread EXCEPT
        !.query = query,
        !.k = k,
        !.pc = IF retriever = NoRef THEN "done" ELSE "call",
        !.resp = IF retriever = NoRef
                 THEN Response(500, [detail |-> "Internal Server Error"])
                 ELSE NoResponse]

\* `if retriever is None: raise HTTPException(503)`: the fields of thread t
\* after the readiness check of a request for (query, k)
CheckReady(thread, query, k) ==
    [thread EXCEPT
        !.query = query,
        !.k = k,
        !.pc = IF retriever = NoRef THEN "done" ELSE "call",
        !.resp = IF retriever = NoRef
                 THEN Response(503, [detail |-> "Retriever not ready."])
                 ELSE NoResponse]

\* GET /debug/retrieve?q=..&k=.. arrives: debug_retrieve up to its call of
\* the retriever
DebugRetrieveCheck(t) ==
    /\ CanBegin(t)
    /\ \E pr \in RetrieveParams :
          th' = [th EXCEPT
                   ![t] = CheckReady([@ EXCEPT !.op = "debug_retrieve"], pr[1], pr[2])]
    /\ UNCHANGED <<fsAt, fsChanges, retriever, heap, runs, published, chunkVars, searchVars, tokVars>>

\* POST /chat arrives: chat up to its call of the retriever.  A blank message
\* is a 400; int() and float() of values that do not parse raise, which the
\* framework answers with a 500; then comes the readiness check
ChatCheck(t) ==
    /\ CanBegin(t)
    /\ \E pl \in ChatPayloads :
          LET user_query == Strip(pl.message)
              k == IF pl.k \in DOMAIN IntOf THEN IntOf[pl.k] ELSE DefaultChatK
              me == [th[t] EXCEPT !.op = "chat", !.payload = pl]
          IN  th' = [th EXCEPT ![t] =
                 IF user_query = <<>>
                 THEN [me EXCEPT !.pc = "done",
                                 !.resp = Response(400, [detail |-> "Missing message."])]
                 ELSE IF ~KParses(pl) \/ ~TemperatureParses(pl)
                 THEN [me EXCEPT !.pc = "done",
                                 !.resp = Response(500, [detail |-> "Internal Server Error"])]
                 ELSE CheckReady(me, user_query, k)]
    /\ UNCHANGED <<fsAt, fsChanges, retriever, heap, runs, published, chunkVars, searchVars, tokVars>>

\* `retriever(q, k=k)`: the global is read and the closure entered
CallRetriever(t) ==
    /\ th[t].pc = "call"
    /\ th' = [th EXCEPT ![t].ref = retriever, ![t].pc = "search"]
    /\ UNCHANGED <<fsAt, fsChanges, retriever, heap, runs, published, chunkVars, searchVars, tokVars>>

\* _retrieve on the index of the closure, and the answer of debug_retrieve
DebugSearch(t) ==
    /\ th[t].pc = "search"
    /\ th[t].op = "debug_retrieve"
    /\ LET docs == _retrieve(heap[th[t].ref], th[t].query, th[t].k)
       IN  th' = [th EXCEPT
                ![t].hits = docs,
                ![t].pc = "done",
                ![t].resp = Response(200, [results |-> DebugResults(docs)])]
    /\ heap' = [heap EXCEPT ![th[t].ref] = IndexAfterSearch(@, th[t].query)]
    /\ UNCHANGED <<fsAt, fsChanges, retriever, runs, published, chunkVars, searchVars, tokVars>>

\* _retrieve on the index of the closure in chat, then call_openai and the
\* answer: the provider answers, or the call raises (no API key, no SDK, a
\* network error) and the framework sends a 500
ChatSearch(t) ==
    /\ th[t].pc = "search"
    /\ th[t].op = "chat"
    /\ LET docs == _retrieve(heap[th[t].ref], th[t].query, th[t].k)
       IN  \E answered \in BOOLEAN :
              th' = [th EXCEPT
                ![t].hits = docs,
                ![t].pc = "done",
                ![t].resp = IF answered
                            THEN Response(200, [citations |-> ChatCitations(docs)])
                            ELSE Response(500, [detail |-> "Internal Server Error"])]
    /\ heap' = [heap EXCEPT ![th[t].ref] = IndexAfterSearch(@, th[t].query)]
    /\ UNCHANGED <<fsAt, fsChanges, retriever, runs, published, chunkVars, searchVars, tokVars>>

SvcNext ==
    \/ FsChange
    \/ StartupLoad
    \/ StartupFail
    \/ StartupPublish
    \/ \E t \in Threads :
          \/ ReindexLoad(t)
          \/ ReindexExcept(t)
          \/ BuildStats(t)
          \/ ReindexPublish(t)
          \/ DebugRetrieveCheck(t)
          \/ ChatCheck(t)
          \/ CallRetriever(t)
          \/ DebugSearch(t)
          \/ ChatSearch(t)

Spec == SvcInit /\ [][SvcNext]_vars

-----------------------------------------------------------------------------
(* The chunker on its own: a call of _chunk_text on a bounded input        *)

\* the building blocks of an input: runs of one letter whose lengths meet the
\* budgets of ChunkParams from both sides (1199 fits max_chars but not with
\* its separator, 1201 does not fit), and a block with inner and outer
\* whitespace
Pieces == {<<"a">>, Rep("b", 9), Rep("c", 1199), Rep("d", 1201),
           <<" ", "e", "\n", "f", "\t">>}

\* blank-line separators
Seps == {<<"\n", "\n">>, <<"\n", " ", "\n", "\n">>}

\* the texts made of n pieces with a separator between neighbours
RECURSIVE TextsOf(_)
TextsOf(n) ==
    IF n = 0 THEN {<<>>}
    ELSE IF n = 1 THEN Pieces
    ELSE {t \o s \o p : t \in TextsOf(n - 1), s \in Seps, p \in Pieces}

ChunkTexts == UNION {TextsOf(n) : n \in 0..MaxParas}

\* (max_chars, overlap): the defaults, no overlap, and a small budget
ChunkParams == {<<DefaultMaxChars, DefaultOverlap>>, <<DefaultMaxChars, 0>>,
                <<10, 3>>, <<10, 20>>}

ChunkInit ==
    /\ SearchIdle
    /\ TokIdle
    /\ SvcIdle
    /\ cText \in ChunkTexts
    /\ \E pr \in ChunkParams : cMax = pr[1] /\ cOverlap = pr[2]
    /\ cOut = <<>>
    /\ cPhase = "input"

ChunkCall ==
    /\ cPhase = "input"
    /\ cOut' = _chunk_text(cText, cMax, cOverlap)
    /\ cPhase' = "done"
    /\ UNCHANGED <<cText, cMax, cOverlap>>
    /\ UNCHANGED <<searchVars, tokVars, svcVars>>

ChunkNext == ChunkCall

SpecChunk == ChunkInit /\ [][ChunkNext]_vars

-----------------------------------------------------------------------------
(* The index on its own: BM25Index built from a bounded list of chunks,    *)
(* then searched any number of times                                       *)

\* chunk texts: one term, two terms, a repeated term in upper case, no term
IndexTexts == {<<"a", "a">>, <<"a", "a", " ", "b", "b">>, <<"b", "b">>,
               <<"A", "A", " ", "a", "a">>, <<"!">>}

\* the lists of at most n chunks, each tokenised as build_bm25_retriever does
RECURSIVE ChunkLists(_)
ChunkLists(n) ==
    IF n = 0 THEN {<<>>}
    ELSE LET shorter == ChunkLists(n - 1)
         IN  shorter \cup
             {Append(cs, Chunk("a.txt", t, _tokenise_norm(t))) :
                 cs \in shorter, t \in IndexTexts}

\* queries: empty, punctuation only, a corpus term, a corpus term and an
\* unknown one, two terms
Queries == {<<>>, <<"!", "?">>, <<"a", "a">>, <<"b", "b", " ", "z", "z">>,
            <<"A", "a", ",", "b", "b">>}

\* values of k around the floor max(1, k) and the chunk counts
Ks == {-1, 0, 1, 2, 5}

\* (k1, b) of BM25Index: the defaults, and k1 = 0, with which the denominator
\* of score is f alone
IndexParams == {<<DefaultK1, DefaultB>>, <<QInt(0), DefaultB>>}

SearchInit ==
    /\ ChunkIdle
    /\ TokIdle
    /\ SvcIdle
    /\ sChunks \in ChunkLists(MaxChunks)
    /\ sIndex = None
    /\ sQuery = <<>>
    /\ sK = 5
    /\ sHits = <<>>
    /\ sPhase = "input"
    /\ sAgain = <<>>
    /\ hashSeed = 0

\* index = BM25Index(chunks, k1, b)
SearchBuild ==
    /\ sPhase = "input"
    /\ \E pr \in IndexParams : sIndex' = BM25Index(sChunks, pr[1], pr[2])
    /\ sPhase' = "built"
    /\ UNCHANGED <<sChunks, sQuery, sK, sHits, sAgain, hashSeed>>
    /\ UNCHANGED <<chunkVars, tokVars, svcVars>>

\* index.search(query, k): it returns its hits, or an exception leaves it;
\* the searches that follow the first one keep its k
SearchCall ==
    /\ sPhase \in {"built", "searched"}
    /\ \E q \in Queries, k \in (IF sPhase = "built" THEN Ks ELSE {sK}) :
          /\ sQuery' = q
          /\ sK' = k
          /\ IF SearchRaises(sIndex, q)
             THEN /\ sHits' = <<>>
                  /\ sPhase' = "raised"
                  /\ sIndex' = sIndex
             ELSE /\ sHits' = search(sIndex, q, k)
                  /\ sPhase' = "searched"
                  /\ sIndex' = IndexAfterSearch(sIndex, q)
    /\ UNCHANGED <<sChunks, sAgain, hashSeed>>
    /\ UNCHANGED <<chunkVars, tokVars, svcVars>>

\* the same search once more on the same index
SearchRepeat ==
    /\ sPhase = "searched"
    /\ sAgain' = search(sIndex, sQuery, sK)
    /\ sIndex' = IndexAfterSearch(sIndex, sQuery)
    /\ sPhase' = "repeated"
    /\ UNCHANGED <<sChunks, sQuery, sK, sHits, hashSeed>>
    /\ UNCHANGED <<chunkVars, tokVars, svcVars>>

\* the process is started again with another hash seed
SearchRestart ==
    /\ sPhase = "searched"
    /\ hashSeed' \in HashSeeds \ {hashSeed}
    /\ sPhase' = "restarted"
    /\ UNCHANGED <<sChunks, sIndex, sQuery, sK, sHits, sAgain>>
    /\ UNCHANGED <<chunkVars, tokVars, svcVars>>

\* the new process builds an index from the same chunks and runs the same search
SearchAgain ==
    /\ sPhase = "restarted"
    /\ sAgain' = search(BM25Index(sChunks, sIndex.k1, sIndex.b), sQuery, sK)
    /\ sPhase' = "again"
    /\ UNCHANGED <<sChunks, sIndex, sQuery, sK, sHits, hashSeed>>
    /\ UNCHANGED <<chunkVars, tokVars, svcVars>>

SearchNext ==
    SearchBuild \/ SearchCall \/ SearchRepeat \/ SearchRestart \/ SearchAgain

SpecSearch == SearchInit /\ [][SearchNext]_vars

-----------------------------------------------------------------------------
(* The tokeniser on its own: a call of _tokenise_norm on a bounded str     *)

\* the characters of the inputs: a lower-case and an upper-case letter, a
\* digit, the hyphen, a blank and a full stop
TokChars == {"a", "Z", "7", "-", " ", "."}

\* every str of at most MaxTokLen of these characters, and "a b cd"
TokTexts ==
    UNION {[1..n -> TokChars] : n \in 0..MaxTokLen}
        \cup {<<"a", " ", "b", " ", "c", "d">>}

TokInit ==
    /\ ChunkIdle
    /\ SearchIdle
    /\ SvcIdle
    /\ tText \in TokTexts
    /\ tOut = <<>>
    /\ tPhase = "input"

\* _tokenise_norm(s)
TokCall ==
    /\ tPhase = "input"
    /\ tOut' = _tokenise_norm(tText)
    /\ tPhase' = "done"
    /\ UNCHANGED tText
    /\ UNCHANGED <<chunkVars, searchVars, svcVars>>

TokNext == TokCall

SpecTok == TokInit /\ [][TokNext]_vars

-----------------------------------------------------------------------------
(* Claims about the service, checked under Spec                            *)

Requests == 1..MaxRequests

\* thread t runs, or has run, a query
IsQuery(t) == th[t].op \in {"debug_retrieve", "chat"}

\* the index a complete load -> chunk -> build run makes of the documents
\* that run number r read
IndexOfRun(r) == BM25Index(ChunksOf(runs[r].docs), DefaultK1, DefaultB)

\* the references assigned to `retriever` so far
PublishedRefs == {published[i].ref : i \in 1..Len(published)}

\* the threads that have assigned to `retriever`
Publishers == {published[i].by : i \in 1..Len(published)}

\* C1: whatever reindex requests run beside it, a query is answered from one
\* index that was published and that is the complete result of exactly one
\* load -> chunk -> build run, never from an index under construction.
C1_QueryOneBuild ==
    \A t \in Requests :
        (IsQuery(t) /\ th[t].ref # NoRef) =>
            /\ th[t].ref \in PublishedRefs
            /\ heap[th[t].ref] = IndexOfRun(th[t].ref)
            /\ th[t].pc = "done" =>
                  th[t].hits = _retrieve(IndexOfRun(th[t].ref), th[t].query, th[t].k)

\* C1's case: a query answered from the index published before a reindex
\* that has published another index since
C1_Witness ==
    \E t \in Requests :
        /\ th[t].op = "debug_retrieve"
        /\ th[t].pc = "done"
        /\ th[t].resp.code = 200
        /\ th[t].hits # <<>>
        /\ th[t].ref # retriever
        /\ heap[th[t].ref].chunks # heap[retriever].chunks
        /\ \E u \in Requests : th[u].op = "reindex" /\ th[u].pc = "done"

\* C2: a reindex whose pipeline raises answers HTTP 500 with status "error"
\* instead of raising, and leaves `retriever` as it was: the step that handles
\* the exception does not write it, and no failed reindex ever published.
C2_FailedReindexKeepsIndex ==
    /\ [](\A t \in Requests :
            (th[t].op = "reindex" /\ th[t].storage = "ioerror") =>
                /\ th[t].pc = "done"
                /\ th[t].resp = Response(500, [status |-> "error"])
                /\ t \notin Publishers)
    /\ [][\A t \in Requests :
            (th[t].op # "reindex" /\ th'[t].op = "reindex" /\ LoadRaises) =>
                (retriever' = retriever /\ heap' = heap)]_vars

\* C2's case: a reindex has failed while an index with chunks was published
C2_Witness ==
    \E t \in Requests :
        /\ th[t].op = "reindex"
        /\ th[t].pc = "done"
        /\ th[t].resp.code = 500
        /\ retriever # NoRef
        /\ heap[retriever].N > 0

\* C3 as claimed: a reindex that runs while the corpus directory is missing
\* or a file of it cannot be read reports a failure and does not publish.
C3_UnreadableStorageFails ==
    \A t \in Requests :
        (/\ th[t].op = "reindex"
         /\ th[t].pc = "done"
         /\ th[t].storage \in {"missing", "unreadable_file"})
            => (th[t].resp.body.status = "error" /\ t \notin Publishers)

\* C3 amended: a reindex that meets a missing corpus directory or unreadable
\* files does not fail: it answers status "ok" and publishes the index of the
\* documents it could read (no chunks for a missing directory); only a
\* reindex whose pipeline raises answers "error" and publishes nothing.
C3_UnreadableStorageSkipped ==
    \A t \in Requests :
        (th[t].op = "reindex" /\ th[t].pc = "done") =>
            /\ th[t].storage \in {"missing", "unreadable_file", "readable"} =>
                  /\ th[t].resp = Response(200, [status |-> "ok"])
                  /\ \E i \in 1..Len(published) :
                        published[i].by = t /\ published[i].ref = th[t].ref
                  /\ heap[th[t].ref] = IndexOfRun(th[t].ref)
                  /\ th[t].storage = "missing" => heap[th[t].ref].N = 0
            /\ th[t].storage = "ioerror" =>
                  /\ th[t].resp.body.status = "error"
                  /\ t \notin Publishers

\* C3's case: a reindex on a missing directory has replaced an index with
\* chunks by an empty one, and one has skipped an unreadable file
C3_Witness ==
    /\ \E t \in Requests :
          /\ th[t].op = "reindex"
          /\ th[t].pc = "done"
          /\ th[t].storage = "missing"
          /\ retriever = th[t].ref
          /\ Len(published) >= 2
          /\ heap[published[1].ref].N > 0
    /\ \E r \in 1..Len(runs) :
          /\ th[runs[r].by].storage = "unreadable_file"
          /\ th[runs[r].by].pc = "done"

\* C4: at most one reindex is between entering its load -> chunk -> build ->
\* publish section and leaving it.
C4_OneReindexAtATime ==
    Cardinality({t \in Requests :
                    th[t].op = "reindex" /\ th[t].pc \in {"stats", "publish"}}) <= 1

ChatRejects(pl) ==
    IF Strip(pl.message) = <<>> THEN 400
    ELSE IF ~KParses(pl) \/ ~TemperatureParses(pl) THEN 500
    ELSE 0

C6_EmptyCorpusServes ==
    /\ \A t \in Threads :
          th[t].op \in {"startup", "reindex"} =>
              /\ (th[t].pc = "failed" \/ th[t].resp.code = 500)
                    => th[t].storage = "ioerror"
              /\ (th[t].pc = "done" /\ th[t].ref # NoRef /\ runs[th[t].ref].docs = <<>>) =>
                    /\ th[t].ref \in PublishedRefs
                    /\ heap[th[t].ref].N = 0
                    /\ t >= 1 => th[t].resp = Response(200, [status |-> "ok"])
                    /\ \A q \in Queries, k \in Ks :
                          _retrieve(heap[th[t].ref], q, k) = <<>>
    /\ \A t \in Requests :
          (IsQuery(t) /\ th[t].pc = "done" /\ th[t].ref # NoRef
                /\ heap[th[t].ref].N = 0) =>
              /\ th[t].hits = <<>>
              /\ th[t].op = "debug_retrieve"
                    => th[t].resp = Response(200, [results |-> <<>>])

\* C6's case: startup has published the index of a corpus without documents
\* and a query has been answered from it
C6_Witness ==
    /\ th[0].pc = "done"
    /\ runs[th[0].ref].docs = <<>>
    /\ \E t \in Requests :
          /\ th[t].op = "debug_retrieve"
          /\ th[t].pc = "done"
          /\ th[t].ref = th[0].ref
          /\ th[t].resp.code = 200

\* the construction of heap object r has ended: no thread is inside its
\* BM25Index.__init__
Constructed(r) == ~\E t \in Threads : th[t].ref = r /\ th[t].pc = "stats"

\* C11: once built, an index is never mutated: no step of the service, a
\* search for terms the corpus does not hold included, changes chunks, N, df
\* (its key set included) or avgdl of a constructed index object, and every
\* assignment to `retriever` publishes an object that was not published before.
C11_IndexNeverMutated ==
    /\ [][\A r \in DOMAIN heap : Constructed(r) => heap'[r] = heap[r]]_vars
    /\ [](\A i, j \in DOMAIN published :
             i # j => published[i].ref # published[j].ref)

\* C11's case: a query with a term its index does not hold has searched an
\* index that has chunks, and a reindex has published a second object
C11_Witness ==
    /\ Len(published) >= 2
    /\ \E t \in Requests :
          /\ IsQuery(t)
          /\ th[t].pc = "done"
          /\ th[t].hits # <<>>
          /\ \E tok \in Range(_tokenise_norm(th[t].query)) :
                tok \notin DOMAIN heap[th[t].ref].df

\* the answer of thread t is the not-ready response
NotReady(t) == th[t].resp.code = 503

\* C21: once an index has been published the service stays ready: no step
\* sets `retriever` back to None, and while an index is published no request
\* is answered not-ready, during or after reindex calls that succeed or fail.
C21_StaysReady ==
    /\ [][retriever # NoRef => retriever' # NoRef]_vars
    /\ [][\A t \in Requests :
            (retriever # NoRef /\ ~NotReady(t)) => ~NotReady(t)']_vars

\* C21's case: while a reindex is building, a query that arrived after it
\* has been answered from the published index
C21_Witness ==
    /\ retriever # NoRef
    /\ \E a, c \in Requests :
          /\ a < c
          /\ th[a].op = "reindex"
          /\ th[a].pc \in {"stats", "publish"}
          /\ IsQuery(c)
          /\ th[c].pc = "done"
          /\ th[c].resp.code = 200
          /\ th[c].hits # <<>>

\* C22: the published index never goes back to an older load of the corpus:
\* of two reindex calls, the index of the one that loaded the corpus first is
\* never assigned to `retriever` after the index of the other (heap
\* references are handed out in the order of the loads).
C22_NoRegression ==
    \A i, j \in DOMAIN published :
        (/\ i < j
         /\ published[i].by \in Requests
         /\ published[j].by \in Requests)
            => published[i].ref < published[j].ref

-----------------------------------------------------------------------------
(* Claims about the chunker, checked under SpecChunk                       *)

\* a is a prefix of b
IsPrefix(a, b) == Len(a) <= Len(b) /\ SubSeq(b, 1, Len(a)) = a

\* C7: with the default max_chars and overlap, every chunk _chunk_text emits
\* has length <= max_chars or is exactly one paragraph of the text whose own
\* length exceeds max_chars.
C7_ChunkBound ==
    (cPhase = "done" /\ cMax = DefaultMaxChars /\ cOverlap = DefaultOverlap)
        => \A i \in 1..Len(cOut) :
              \/ Len(cOut[i]) <= cMax
              \/ \E p \in Range(Paras(cText)) : cOut[i] = p /\ Len(p) > cMax

\* C8: for overlap > 0, the last `overlap` characters of every chunk but the
\* last (the whole chunk when it is shorter) are a prefix of the next chunk.
C8_OverlapPrefix ==
    (cPhase = "done" /\ cOverlap > 0)
        => \A i \in 1..(Len(cOut) - 1) :
              IsPrefix(LastChars(cOut[i], cOverlap), cOut[i + 1])

\* C8's case: three chunks, one longer and one shorter than the overlap
C8_Witness ==
    /\ cPhase = "done"
    /\ cOverlap > 0
    /\ Len(cOut) >= 3
    /\ Len(cOut[1]) < cOverlap
    /\ Len(cOut[2]) > cOverlap
    /\ cOut[3] # cOut[2]

\* the chunks that come of cutting the paragraphs ps after the positions in
\* cuts: each chunk is the join of its paragraphs, behind the overlap tail of
\* the chunk before it (prev) when there is one and overlap > 0
RECURSIVE Assemble(_, _, _, _, _)
Assemble(ps, cuts, from, prev, overlap) ==
    IF from > Len(ps) THEN <<>>
    ELSE LET to == CHOOSE e \in from..Len(ps) :
                      /\ e \in cuts \/ e = Len(ps)
                      /\ \A m \in from..(e - 1) : m \notin cuts
             seed == IF from > 1 /\ overlap > 0
                     THEN <<LastChars(prev, overlap)>> ELSE <<>>
             chunk == Join(seed \o SubSeq(ps, from, to))
         IN  <<chunk>> \o Assemble(ps, cuts, to + 1, chunk, overlap)

\* C16: for every text, max_chars and overlap, the chunks are the stripped
\* non-empty paragraphs of the text, whole and in input order, each in
\* exactly one chunk, a paragraph longer than max_chars included; a chunk
\* holds nothing else but, in front, the overlap tail of the chunk before it.
C16_ParagraphsWhole ==
    cPhase = "done"
        => LET ps == Paras(cText)
           IN  \E cuts \in SUBSET (1..(Len(ps) - 1)) :
                  cOut = Assemble(ps, cuts, 1, <<>>, cOverlap)

\* C16's case: three paragraphs, two of them in one chunk and one longer than
\* max_chars behind an overlap tail
C16_Witness ==
    /\ cPhase = "done"
    /\ cOverlap > 0
    /\ Len(Paras(cText)) = 3
    /\ Len(cOut) = 2
    /\ Len(Paras(cText)[3]) > cMax
    /\ Len(cOut[2]) > Len(Paras(cText)[3])

-----------------------------------------------------------------------------
(* Claims about search, checked under SpecSearch                           *)

\* C9: search(query, k) on an index of N chunks returns exactly
\* min(N, max(1, k)) entries, for every query and every integer k, and so
\* an empty list only when N = 0.
C9_ResultCount ==
    sPhase = "searched"
        => /\ Len(sHits) = Min(sIndex.N, Max(1, sK))
           /\ (sHits = <<>> <=> sIndex.N = 0)

\* C9's case: k = 0 and a negative k on an index of two or more chunks, and
\* k larger than N
C9_Witness ==
    /\ sPhase = "searched"
    /\ sIndex.N >= 2
    /\ sK < 0
    /\ Len(sHits) = 1

\* the chunks of the index in the order search ranks them: position i comes
\* before j when it scores higher, or scores the same and was inserted first
RanksBefore(self, q, i, j) ==
    LET si == score(self, q, self.chunks[i])
        sj == score(self, q, self.chunks[j])
    IN  si > sj \/ (si = sj /\ i < j)

\* C10: search returns entries in non-increasing score order, entries of
\* equal score in the insertion order of their chunks, and the returned list
\* is a prefix of that ordering of all the chunks of the index.
C10_StableDescending ==
    sPhase = "searched"
        => LET q == _tokenise_norm(sQuery)
           IN  /\ \A i \in 1..Len(sHits) :
                     sHits[i].score = score(sIndex, q, sIndex.chunks[sHits[i].ch])
               /\ \A i, j \in 1..Len(sHits) :
                     i < j => /\ sHits[i].score >= sHits[j].score
                              /\ sHits[i].score = sHits[j].score
                                    => sHits[i].ch < sHits[j].ch
               /\ \A i \in 1..Len(sHits) :
                     Cardinality({c \in 1..sIndex.N :
                                    RanksBefore(sIndex, q, c, sHits[i].ch)}) = i - 1

\* C10's case: a result of three entries, two of them tied at a positive
\* score below the first
C10_Witness ==
    /\ sPhase = "searched"
    /\ Len(sHits) >= 3
    /\ sHits[1].score > sHits[2].score
    /\ sHits[2].score = sHits[3].score
    /\ sHits[3].score > 0

\* C12: search(query, k) never raises: for every built index of the harness
\* (no chunks, chunks without tokens, k1 = 0) and every query (empty,
\* punctuation only, unknown terms) no division by zero and no math.log
\* domain error occurs in score.
C12_SearchNeverRaises == sPhase # "raised"

\* C12's case: a search with query terms has returned from an index that has
\* chunks but no tokens (avgdl = 0 with N > 0)
C12_Witness ==
    /\ sPhase = "searched"
    /\ sIndex.N > 0
    /\ sIndex.avgdl.n = 0
    /\ _tokenise_norm(sQuery) # <<>>
    /\ Len(sHits) >= 1

\* the index was built with the default k1 and b
DefaultParams(self) == self.k1 = DefaultK1 /\ self.b = DefaultB

\* C13: with the default k1 and b, the score of every chunk of the index for
\* the query is >= 0, and so is every score search returns.
C13_ScoreNonNegative ==
    (sPhase = "searched" /\ DefaultParams(sIndex))
        => /\ \A i \in 1..sIndex.N :
                 score(sIndex, _tokenise_norm(sQuery), sIndex.chunks[i]) >= 0
           /\ \A i \in 1..Len(sHits) : sHits[i].score >= 0

\* C13's case: a term held by more than half of the chunks scores above 0
\* next to a chunk that scores 0
C13_Witness ==
    /\ sPhase = "searched"
    /\ DefaultParams(sIndex)
    /\ Len(sHits) >= 3
    /\ sHits[2].score > 0
    /\ sHits[3].score = 0
    /\ \E t \in Range(_tokenise_norm(sQuery)) :
          t \in DOMAIN sIndex.df /\ 2 * sIndex.df[t] > sIndex.N

\* C14: retrieval is deterministic: the same search repeated on one index,
\* and the same search on an index built from the same chunks in a process
\* with another hash seed, return the same entries in the same order with the
\* same scores; the two indexes are equal.
C14_Deterministic ==
    /\ sPhase \in {"repeated", "again"} => sAgain = sHits
    /\ sPhase = "again" => BM25Index(sChunks, sIndex.k1, sIndex.b) = sIndex

\* C14's case: the second process, with the other hash seed, has returned a
\* result whose first two entries tie at a positive score, from chunks of two terms
C14_Witness ==
    /\ sPhase = "again"
    /\ hashSeed # 0
    /\ Len(sAgain) >= 2
    /\ sAgain[1].score = sAgain[2].score
    /\ sAgain[1].score > 0
    /\ Cardinality(DOMAIN sIndex.df) >= 2

\* the number of tokens of all chunks together
TotalTokens(chunks) ==
    Cardinality({p \in (1..Len(chunks)) \X (1..4) : p[2] <= Len(chunks[p[1]].tokens)})

\* C17: after build, df holds exactly the terms of the chunks, df(t) is the
\* number of chunks whose tokens contain t (so 1 <= df(t) <= N), and avgdl is
\* the sum of the token counts divided by N, or 0 when N = 0.
C17_DocFreq ==
    sPhase # "input"
        => /\ DOMAIN sIndex.df = UNION {Range(sChunks[i].tokens) : i \in 1..Len(sChunks)}
           /\ \A t \in DOMAIN sIndex.df :
                 /\ sIndex.df[t] =
                       Cardinality({i \in 1..Len(sChunks) : t \in Range(sChunks[i].tokens)})
                 /\ 1 <= sIndex.df[t]
                 /\ sIndex.df[t] <= sIndex.N
           /\ sIndex.N = Len(sChunks)
           /\ sIndex.N = 0 => sIndex.avgdl = QInt(0)
           /\ sIndex.N > 0 =>
                 sIndex.avgdl.n * sIndex.N = sIndex.avgdl.d * TotalTokens(sChunks)

\* C17's case: an index of two or more chunks, one of which repeats a term
\* that another chunk does not hold
C17_Witness ==
    /\ sPhase = "built"
    /\ sIndex.N >= 2
    /\ \E i, j \in 1..sIndex.N, t \in DOMAIN sIndex.df :
          /\ Count(sChunks[i].tokens, t) >= 2
          /\ Count(sChunks[j].tokens, t) = 0
          /\ sIndex.df[t] < sIndex.N

\* chunks a and b of the index have the same token count, a holds more
\* occurrences of the query term t, and as many of every other query term
MoreOf(self, q, t, a, b) ==
    /\ Len(self.chunks[a].tokens) = Len(self.chunks[b].tokens)
    /\ Count(self.chunks[a].tokens, t) > Count(self.chunks[b].tokens, t)
    /\ \A u \in Range(q) \ {t} :
          Count(self.chunks[a].tokens, u) = Count(self.chunks[b].tokens, u)

\* C18: for two chunks of one index with equal token count and a query term
\* t, if chunk a holds more occurrences of t than chunk b and as many of every
\* other query term, then score(q, a) >= score(q, b).
C18_TfMonotone ==
    sPhase = "searched"
        => LET q == _tokenise_norm(sQuery)
           IN  \A a, b \in 1..sIndex.N, t \in Range(q) :
                  MoreOf(sIndex, q, t, a, b)
                     => score(sIndex, q, sIndex.chunks[a])
                           >= score(sIndex, q, sIndex.chunks[b])

\* C18's case: both chunks hold the term, one of them twice, and it scores more
C18_Witness ==
    /\ sPhase = "searched"
    /\ LET q == _tokenise_norm(sQuery)
       IN  \E a, b \in 1..sIndex.N, t \in Range(q) :
              /\ MoreOf(sIndex, q, t, a, b)
              /\ Count(sIndex.chunks[b].tokens, t) >= 1
              /\ score(sIndex, q, sIndex.chunks[a]) > score(sIndex, q, sIndex.chunks[b])

\* C19: in an index of N >= 2 chunks, in any chunk, the contribution to the
\* score of a term held by every chunk (df = N) is smaller than that of a
\* term held by one chunk only (df = 1) that occurs as often in the chunk.
C19_RareTermWeighsMore ==
    (sPhase = "built" /\ sIndex.N >= 2)
        => \A i \in 1..sIndex.N, t \in DOMAIN sIndex.df, u \in DOMAIN sIndex.df :
              (/\ sIndex.df[t] = sIndex.N
               /\ sIndex.df[u] = 1
               /\ Count(sIndex.chunks[i].tokens, t) = Count(sIndex.chunks[i].tokens, u))
                 => TermScore(sIndex, t, sIndex.chunks[i])
                       < TermScore(sIndex, u, sIndex.chunks[i])

\* C19's case: an index of three chunks, one of which holds once a term of
\* every chunk and once a term of its own
C19_Witness ==
    /\ sPhase = "built"
    /\ sIndex.N >= 3
    /\ \E i \in 1..sIndex.N, t \in DOMAIN sIndex.df, u \in DOMAIN sIndex.df :
          /\ sIndex.df[t] = sIndex.N
          /\ sIndex.df[u] = 1
          /\ Count(sIndex.chunks[i].tokens, t) = 1
          /\ Count(sIndex.chunks[i].tokens, u) = 1

\* the terms of q that are in the set terms, in order
RECURSIVE Known(_, _)
Known(q, terms) ==
    IF q = <<>> THEN <<>>
    ELSE (IF Head(q) \in terms THEN <<Head(q)>> ELSE <<>>) \o Known(Tail(q), terms)

\* C20: with the default k1 and b, the score of a chunk is 0 when its tokens
\* hold none of the query terms and > 0 when they hold one or more, and it
\* is the score for the query without the terms no chunk holds.
C20_ScoreZeroIffNoTerm ==
    (sPhase = "searched" /\ DefaultParams(sIndex))
        => LET q == _tokenise_norm(sQuery)
           IN  \A i \in 1..sIndex.N :
                  LET ch == sIndex.chunks[i]
                      s  == score(sIndex, q, ch)
                  IN  /\ (Range(q) \cap Range(ch.tokens) = {}) => s = 0
                      /\ (Range(q) \cap Range(ch.tokens) # {}) => s > 0
                      /\ s = score(sIndex, Known(q, DOMAIN sIndex.df), ch)

\* C20's case: a query of a term every chunk holds and a term no chunk
\* holds, on an index of two or more chunks
C20_Witness ==
    /\ sPhase = "searched"
    /\ DefaultParams(sIndex)
    /\ sIndex.N >= 2
    /\ LET q == _tokenise_norm(sQuery)
       IN  /\ \E t \in Range(q) : t \notin DOMAIN sIndex.df
           /\ \E t \in Range(q) : t \in DOMAIN sIndex.df /\ sIndex.df[t] = sIndex.N
    /\ sHits[1].score > 0

-----------------------------------------------------------------------------
(* Claims about the tokeniser, checked under SpecTok                       *)

\* C15: _tokenise_norm returns for every str: nothing for the empty str, and
\* otherwise terms of two or more characters, all of them lower-case letters,
\* digits or hyphens, the first a letter or a digit; a run of one character
\* is no term, so "a b cd" gives ["cd"].
C15_TokenizeTerms ==
    tPhase = "done"
        => /\ tText = <<>> => tOut = <<>>
           /\ \A i \in 1..Len(tOut) :
                 /\ Len(tOut[i]) >= 2
                 /\ \A j \in 1..Len(tOut[i]) :
                       tOut[i][j] \in Range(LowerLetters) \cup Digits \cup {"-"}
                 /\ tOut[i][1] # "-"
           /\ tText = <<"a", " ", "b", " ", "c", "d">> => tOut = << <<"c", "d">> >>
           /\ tOut = _tokenise_norm(tText)

\* C15's case: the tokens of "a b cd"
C15_Witness ==
    /\ tPhase = "done"
    /\ tText = <<"a", " ", "b", " ", "c", "d">>
    /\ tOut = << <<"c", "d">> >>

=============================================================================
